---------------------------- MODULE Spec2Model ----------------------------
(***************************************************************************)
(* A model of src/agent.py: the chain-of-thought pipeline cot_process,     *)
(* which builds a CoTEnvironment (the model gateway), three CoTAgent role  *)
(* wrappers, and calls analyzer.think, reasoner.think and verifier.think   *)
(* in sequence, feeding each output to the next call.                      *)
(*                                                                         *)
(* Python values are tagged records: a str is [type |-> "str", val |-> s]  *)
(* with s a sequence of one-character strings, None is NoneValue.  Floats  *)
(* of the form (top_p, temperature, slider step 0.01) are counted in       *)
(* hundredths.  The system messages of the three roles are Chinese texts   *)
(* in the source; they are named here by ASCII tags, one per role.         *)
(*                                                                         *)
(* The ZhipuAI client is an external library: the outcome of constructing  *)
(* it and of each chat.completions.create call is an input of the model.   *)
(* The outcomes of create are the response objects and the exceptions      *)
(* deriving from Exception that the client can produce.                    *)
(***************************************************************************)
EXTENDS Naturals, Sequences, FiniteSets

\* ------------------------------------------------------------------ bounds

\* Longest text (in characters) the service replies with or reports in an
\* exception.
MaxLen == 1

\* Number of form submissions (invocations of cot_process) that may overlap.
NumRuns == 2

Runs == 1 .. NumRuns

Alphabet == {"a", "b"}

\* ------------------------------------------------------------ Python values

Str(s) == [type |-> "str", val |-> s]

NoneValue == [type |-> "NoneType", val |-> <<>>]

IsStr(v) == v.type = "str"

\* All sequences over Alphabet of length at most n.
RECURSIVE SeqsUpTo(_)
SeqsUpTo(n) ==
    IF n = 0 THEN {<<>>}
    ELSE LET shorter == SeqsUpTo(n - 1)
         IN  shorter \cup {Append(s, c) : s \in shorter, c \in Alphabet}

Texts == SeqsUpTo(MaxLen)

\* The literal "Error: " of the f-string at line 34.
ErrorPrefix == <<"E", "r", "r", "o", "r", ":", " ">>

\* str(IndexError) of choices[0] on an empty list.
IndexErrorText ==
    <<"l", "i", "s", "t", " ", "i", "n", "d", "e", "x", " ",
      "o", "u", "t", " ", "o", "f", " ", "r", "a", "n", "g", "e">>

\* str(AttributeError) of .content on a message that is None.
AttributeErrorText ==
    <<"'", "N", "o", "n", "e", "T", "y", "p", "e", "'", " ",
      "o", "b", "j", "e", "c", "t", " ", "h", "a", "s", " ", "n", "o", " ",
      "a", "t", "t", "r", "i", "b", "u", "t", "e", " ",
      "'", "c", "o", "n", "t", "e", "n", "t", "'">>

\* ------------------------------------------------- the external service

\* A choice of a response: its message is absent (None) or holds a content,
\* which is a str or None.
Message(c) == [present |-> TRUE, content |-> c]

NoMessage == [present |-> FALSE, content |-> NoneValue]

Choice(m) == [message |-> m]

Contents == {Str(t) : t \in Texts} \cup {NoneValue}

FirstChoices == {Choice(Message(c)) : c \in Contents} \cup {Choice(NoMessage)}

\* What may follow the first choice of a response: nothing, or one more
\* choice whose content no first choice of the model holds.
OtherChoices == {<<>>, <<Choice(Message(Str(<<"z">>)))>>}

Raises(t) == [kind |-> "raise", text |-> t, choices |-> <<>>]

Response(cs) == [kind |-> "response", text |-> <<>>, choices |-> cs]

\* Every outcome of client.chat.completions.create: an exception whose
\* str() is t, or a response with any list of choices.
Outcomes ==
    {Raises(t) : t \in Texts}
    \cup {Response(<<>>)}
    \cup {Response(<<c>> \o rest) : c \in FirstChoices, rest \in OtherChoices}

\* The outcomes of a service that fails or answers with one well-formed
\* choice.
PlainOutcomes ==
    {Raises(<<"a">>),
     Response(<<Choice(Message(Str(<<"a">>)))>>),
     Response(<<Choice(Message(Str(<<"b">>)))>>)}

\* --------------------------------------------------------- the form values

\* The values a submission passes to cot_process (inputs of the click
\* handler): api_key, model, top_p, temperature, max_tokens, question.
Forms ==
    {[api_key |-> "key-1", model |-> "glm-4-plus", top_p |-> 10,
      temperature |-> 10, max_tokens |-> 600, question |-> Str(<<"q">>)],
     [api_key |-> "key-2", model |-> "glm-4-flash", top_p |-> 90,
      temperature |-> 70, max_tokens |-> 128, question |-> Str(<<"a">>)]}

NoForm ==
    [api_key |-> "", model |-> "", top_p |-> 0, temperature |-> 0,
     max_tokens |-> 0, question |-> NoneValue]

\* ------------------------------------------------------------------- state

VARIABLES
    active,     \* the runs (submissions) of this session
    service,    \* the kind of external service of this session
    pc,         \* per run: the line of cot_process it is at
    raisedIn,   \* per run: where the exception that ended it came from
    args,       \* per run: the arguments of cot_process
    env,        \* per run: the CoTEnvironment object it constructed
    agents,     \* per run: the analyzer, reasoner and verifier objects
    locals,     \* per run: steps, reasoning, verification
    calls,      \* per run: the number of ask_model invocations made
    net,        \* per run: the outbound requests, each with its outcome
    ret         \* per run: the value cot_process returned

vars == <<active, service, pc, raisedIn, args, env, agents, locals, calls,
          net, ret>>

NoEnv ==
    [client |-> "", model |-> "", top_p |-> 0, temperature |-> 0,
     max_tokens |-> 0]

NoAgent == [name |-> "", system_message |-> NoneValue, environment |-> 0]

NoAgents == [analyzer |-> NoAgent, reasoner |-> NoAgent, verifier |-> NoAgent]

Unset == [type |-> "unset", val |-> <<>>]

NoLocals == [steps |-> Unset, reasoning |-> Unset, verification |-> Unset]

NoReturn == <<>>

\* The outcomes a service of the given kind can produce for one call.
ServiceOutcomes(kind) == IF kind = "plain" THEN PlainOutcomes ELSE Outcomes

\* --------------------------------------------------------- CoTEnvironment

\* A constructor that keeps its defaults (line 6) whatever it is given.
CoTEnvironmentInit_defaults(a) ==
    [client |-> a.api_key, model |-> "glm-4-plus", top_p |-> 10,
     temperature |-> 10, max_tokens |-> 600]

\* CoTEnvironment.__init__, after ZhipuAI(api_key=api_key) has returned: the
\* client holds the key, the four settings are stored as given.
CoTEnvironmentInit(a) ==
    [client |-> a.api_key, model |-> a.model, top_p |-> a.top_p,
     temperature |-> a.temperature, max_tokens |-> a.max_tokens]

\* One environment kept at module level, overwritten by each submission.
StoreEnv_shared(heap, r, e) == [x \in DOMAIN heap |-> e]

\* The objects of one invocation are its own: the environment constructed
\* at line 93 is bound to the local cot_environment of run r.
StoreEnv(heap, r, e) == [heap EXCEPT ![r] = e]

\* The keyword arguments of chat.completions.create, sent by the client of
\* environment e.
Request(e, system_prompt, user_prompt) ==
    [api_key |-> e.client,
     model |-> e.model,
     messages |-> <<[role |-> "system", content |-> system_prompt],
                    [role |-> "user", content |-> user_prompt]>>,
     top_p |-> e.top_p,
     temperature |-> e.temperature,
     max_tokens |-> e.max_tokens,
     stream |-> FALSE]

Returned(v) == [kind |-> "return", value |-> v, text |-> <<>>]

Raised(t) == [kind |-> "raise", value |-> NoneValue, text |-> t]

\* choices[-1] in place of choices[0].
FirstChoiceContent_last(o) ==
    IF Len(o.choices) = 0 THEN Raised(IndexErrorText)
    ELSE IF ~o.choices[Len(o.choices)].message.present
         THEN Raised(AttributeErrorText)
    ELSE Returned(o.choices[Len(o.choices)].message.content)

\* response.choices[0].message.content on the response of outcome o.
FirstChoiceContent(o) ==
    IF Len(o.choices) = 0 THEN Raised(IndexErrorText)
    ELSE IF ~o.choices[1].message.present THEN Raised(AttributeErrorText)
    ELSE Returned(o.choices[1].message.content)

\* The body of the try statement: the call, then the return expression.
TryBody(o) ==
    IF o.kind = "raise" THEN Raised(o.text) ELSE FirstChoiceContent(o)

\* The handler's string without the exception's text.
ErrorString_noText(t) == Str(ErrorPrefix)

\* f"Error: {str(e)}"
ErrorString(t) == Str(ErrorPrefix \o t)

\* A handler that lets the exception through.
Handle_reraise(body) == body

\* except Exception as e: the handler turns the exception into a value.
Handle(body) ==
    IF body.kind = "raise" THEN Returned(ErrorString(body.text)) ELSE body

\* A failed request sent once more.
Sent_retry(req, o) == IF o.kind = "raise" THEN <<req, req>> ELSE <<req>>

\* The requests one ask_model invocation sends, given the outcome of create.
Sent(req, o) == <<req>>

\* ask_model on environment e when create ends with outcome o: the requests
\* sent and how the invocation ends.
ask_model(e, system_prompt, user_prompt, o) ==
    [sent |-> Sent(Request(e, system_prompt, user_prompt), o),
     result |-> Handle(TryBody(o))]

\* ---------------------------------------------------------------- CoTAgent

\* The texts of the three system messages, by tag.
AnalyzerMessage == Str(<<"[analyze]">>)

ReasonerMessage == Str(<<"[reason]">>)

VerifierMessage == Str(<<"[verify]">>)

CoTAgentInit(name, system_message, environment) ==
    [name |-> name, system_message |-> system_message,
     environment |-> environment]

ProblemAnalyzer(environment) ==
    CoTAgentInit("Problem Analyzer", AnalyzerMessage, environment)

\* The reasoner constructed with the verifier's system message.
StepReasoner_verifierMessage(environment) ==
    CoTAgentInit("Step-by-Step Reasoner", VerifierMessage, environment)

StepReasoner(environment) ==
    CoTAgentInit("Step-by-Step Reasoner", ReasonerMessage, environment)

Verifier(environment) ==
    CoTAgentInit("Logical Verifier", VerifierMessage, environment)

\* CoTAgent.think: the agent's environment is a reference into the heap of
\* environments.
think(agent, heap, user_prompt, o) ==
    ask_model(heap[agent.environment], agent.system_message, user_prompt, o)

\* -------------------------------------------------------------- cot_process

\* Every step given the question.
ThinkArg_question(line, a, l) == a.question

\* The argument of the think call at each line of cot_process.
ThinkArg(line, a, l) ==
    CASE line = "L105" -> a.question
      [] line = "L106" -> l.steps
      [] line = "L107" -> l.reasoning

\* return steps, reasoning, verification
ReturnValue(l) == <<l.steps, l.reasoning, l.verification>>

\* The log entries of the requests in seq, all of invocation number call and
\* all ending with outcome o.
LogEntries(seq, call, o) ==
    [i \in 1 .. Len(seq) |-> [call |-> call, request |-> seq[i], outcome |-> o]]

Init ==
    /\ active = {1}
    /\ service = "any"
    /\ pc = [r \in Runs |-> "idle"]
    /\ raisedIn = [r \in Runs |-> "none"]
    /\ args = [r \in Runs |-> NoForm]
    /\ env = [r \in Runs |-> NoEnv]
    /\ agents = [r \in Runs |-> NoAgents]
    /\ locals = [r \in Runs |-> NoLocals]
    /\ calls = [r \in Runs |-> 0]
    /\ net = [r \in Runs |-> <<>>]
    /\ ret = [r \in Runs |-> NoReturn]

\* Several submissions at once, against a plain service.
InitConc ==
    /\ active = Runs
    /\ service = "plain"
    /\ pc = [r \in Runs |-> "idle"]
    /\ raisedIn = [r \in Runs |-> "none"]
    /\ args = [r \in Runs |-> NoForm]
    /\ env = [r \in Runs |-> NoEnv]
    /\ agents = [r \in Runs |-> NoAgents]
    /\ locals = [r \in Runs |-> NoLocals]
    /\ calls = [r \in Runs |-> 0]
    /\ net = [r \in Runs |-> <<>>]
    /\ ret = [r \in Runs |-> NoReturn]

\* The click handler calls cot_process with the form values; lines 93-102
\* construct the environment and the three agents.  ZhipuAI(api_key=...)
\* runs outside any try statement: when it raises, so does cot_process.
Construct(r) ==
    /\ r \in active
    /\ pc[r] = "idle"
    /\ \E f \in Forms, ctor \in {"ok", "raise"} :
        /\ args' = [args EXCEPT ![r] = f]
        /\ IF ctor = "raise"
           THEN /\ pc' = [pc EXCEPT ![r] = "raised"]
                /\ raisedIn' = [raisedIn EXCEPT ![r] = "CoTEnvironment.__init__"]
                /\ UNCHANGED <<env, agents>>
           ELSE /\ pc' = [pc EXCEPT ![r] = "L105"]
                /\ env' = StoreEnv(env, r, CoTEnvironmentInit(f))
                /\ agents' = [agents EXCEPT ![r] =
                                 [analyzer |-> ProblemAnalyzer(r),
                                  reasoner |-> StepReasoner(r),
                                  verifier |-> Verifier(r)]]
                /\ UNCHANGED raisedIn
    /\ UNCHANGED <<active, service, locals, calls, net, ret>>

\* One think call of run r at the given line, by the given agent, whose
\* result is bound to the local variable target.
Think(r, line, agent, target, o) ==
    LET res == think(agent, env, ThinkArg(line, args[r], locals[r]), o)
        l   == [locals[r] EXCEPT ![target] = res.result.value]
    IN  /\ calls' = [calls EXCEPT ![r] = @ + 1]
        /\ net' = [net EXCEPT ![r] = @ \o LogEntries(res.sent, calls[r] + 1, o)]
        /\ IF res.result.kind = "raise"
           THEN /\ pc' = [pc EXCEPT ![r] = "raised"]
                /\ raisedIn' = [raisedIn EXCEPT ![r] = "ask_model"]
                /\ UNCHANGED <<locals, ret>>
           ELSE /\ locals' = [locals EXCEPT ![r] = l]
                /\ UNCHANGED raisedIn
                /\ IF line = "L107"
                   THEN /\ pc' = [pc EXCEPT ![r] = "returned"]
                        /\ ret' = [ret EXCEPT ![r] = ReturnValue(l)]
                   ELSE /\ pc' = [pc EXCEPT ![r] =
                                     IF line = "L105" THEN "L106" ELSE "L107"]
                        /\ UNCHANGED ret
        /\ UNCHANGED <<active, service, args, env, agents>>

\* steps = analyzer.think(question)
AnalyzerThink(r) ==
    /\ pc[r] = "L105"
    /\ \E o \in ServiceOutcomes(service) :
        Think(r, "L105", agents[r].analyzer, "steps", o)

\* reasoning = reasoner.think(steps)
ReasonerThink(r) ==
    /\ pc[r] = "L106"
    /\ \E o \in ServiceOutcomes(service) :
        Think(r, "L106", agents[r].reasoner, "reasoning", o)

\* verification = verifier.think(reasoning), then the return statement.
VerifierThink(r) ==
    /\ pc[r] = "L107"
    /\ \E o \in ServiceOutcomes(service) :
        Think(r, "L107", agents[r].verifier, "verification", o)

Next ==
    \E r \in Runs :
        \/ Construct(r)
        \/ AnalyzerThink(r)
        \/ ReasonerThink(r)
        \/ VerifierThink(r)

\* One submission against a service with every outcome.
Spec == Init /\ [][Next]_vars

\* Overlapping submissions.
SpecConc == InitConc /\ [][Next]_vars

\* ------------------------------------------------------------ properties

StartsWith(v, p) ==
    /\ IsStr(v)
    /\ Len(v.val) >= Len(p)
    /\ SubSeq(v.val, 1, Len(p)) = p

AfterPrefix(v, p) == SubSeq(v.val, Len(p) + 1, Len(v.val))

\* The local variable that the call-th think call of run r is bound to.
StepResult(r, call) ==
    CASE call = 1 -> locals[r].steps
      [] call = 2 -> locals[r].reasoning
      [] call = 3 -> locals[r].verification

\* The user text of the i-th request of run r.
UserText(r, i) == net[r][i].request.messages[2].content

SystemText(r, i) == net[r][i].request.messages[1].content

\* Outcome o is a response whose first choice holds a message.
IsReply(o) ==
    /\ o.kind = "response"
    /\ Len(o.choices) >= 1
    /\ o.choices[1].message.present

Reply(o) == o.choices[1].message.content

Constructed(r) == pc[r] \in {"L105", "L106", "L107", "returned"}

IsThreeStrings(t) == Len(t) = 3 /\ \A i \in 1 .. 3 : IsStr(t[i])

\* C1: every run ends by returning a triple of three strings and never by
\* raising, whatever the service and the construction of the client do.
C1_RunReturnsThreeStrings ==
    \A r \in Runs :
        /\ pc[r] # "raised"
        /\ pc[r] = "returned" => IsThreeStrings(ret[r])

\* C2: ask_model never raises; what it returns is the content of the first
\* choice of the response, or "Error: " followed by the exception's text.
C2_CompleteReturnsContentOrError ==
    \A r \in Runs :
        /\ raisedIn[r] # "ask_model"
        /\ \A i \in 1 .. Len(net[r]) :
            LET o == net[r][i].outcome
                v == StepResult(r, net[r][i].call)
            IN  \/ IsReply(o) /\ v = Reply(o)
                \/ /\ StartsWith(v, ErrorPrefix)
                   /\ o.kind = "raise" => AfterPrefix(v, ErrorPrefix) = o.text

C2_Witness ==
    \E r \in Runs :
        /\ calls[r] >= 2
        /\ net[r][1].outcome = Raises(<<"a">>)
        /\ locals[r].steps = Str(ErrorPrefix \o <<"a">>)
        /\ IsReply(net[r][2].outcome)
        /\ locals[r].reasoning = Str(<<"b">>)

\* C3: when the service replies A, B, C to the three calls of a run on
\* question q, the run returns (A, B, C) and the user texts of the three
\* requests are q, A, B.
C3_OutputChaining ==
    \A r \in Runs :
        (/\ pc[r] = "returned"
         /\ Len(net[r]) = 3
         /\ \A i \in 1 .. 3 : IsReply(net[r][i].outcome))
        => /\ ret[r] = <<Reply(net[r][1].outcome), Reply(net[r][2].outcome),
                         Reply(net[r][3].outcome)>>
           /\ UserText(r, 1) = args[r].question
           /\ UserText(r, 2) = Reply(net[r][1].outcome)
           /\ UserText(r, 3) = Reply(net[r][2].outcome)

C3_Witness ==
    \E r \in Runs :
        /\ pc[r] = "returned"
        /\ args[r].question = Str(<<"q">>)
        /\ ret[r] = <<Str(<<"a">>), Str(<<"b">>), Str(<<>>)>>
        /\ \A i \in 1 .. 3 : IsReply(net[r][i].outcome)
        /\ UserText(r, 2) = Str(<<"a">>)
        /\ UserText(r, 3) = Str(<<"b">>)

\* C4 as stated: when the first call of a run raises with text T, the first
\* step yields "Error: T", the run is not cut short and returns the three
\* results, and the second and the third step both receive that string as
\* input.  (Whether each result is a str is the subject of C1; here the
\* triple is the three step results.)
C4_ErrorReachesSecondAndThird ==
    \A r \in Runs :
        (calls[r] >= 1 /\ net[r][1].outcome.kind = "raise")
        => LET e == Str(ErrorPrefix \o net[r][1].outcome.text)
           IN  /\ locals[r].steps = e
               /\ pc[r] # "raised"
               /\ calls[r] >= 2 => UserText(r, 2) = e
               /\ calls[r] >= 3 => UserText(r, 3) = e
               /\ pc[r] = "returned" =>
                    /\ calls[r] = 3
                    /\ ret[r] = <<e, locals[r].reasoning,
                                  locals[r].verification>>

\* C4 amended: when the first call of a run raises with text T, the first
\* step yields "Error: T", the run goes on to the second and third call and
\* returns a triple whose first component is that string; the second step
\* receives that string as input and the third step receives the output of
\* the second step.
C4_ErrorReachesSecondStep ==
    \A r \in Runs :
        (calls[r] >= 1 /\ net[r][1].outcome.kind = "raise")
        => LET e == Str(ErrorPrefix \o net[r][1].outcome.text)
           IN  /\ locals[r].steps = e
               /\ pc[r] # "raised"
               /\ calls[r] >= 2 => UserText(r, 2) = e
               /\ calls[r] >= 3 => UserText(r, 3) = locals[r].reasoning
               /\ pc[r] = "returned" =>
                    /\ calls[r] = 3
                    /\ ret[r] = <<e, locals[r].reasoning,
                                  locals[r].verification>>

C4_Witness ==
    \E r \in Runs :
        /\ pc[r] = "returned"
        /\ net[r][1].outcome = Raises(<<"b">>)
        /\ UserText(r, 2) = Str(ErrorPrefix \o <<"b">>)
        /\ IsReply(net[r][2].outcome)
        /\ UserText(r, 3) = Str(<<"a">>)
        /\ ret[r][1] = Str(ErrorPrefix \o <<"b">>)

\* C5: every request of a run carries the model, top_p, temperature and
\* max_tokens submitted to the run, and the environment holds those values
\* from its construction on, whatever the earlier steps ended with.
C5_ParametersForwarded ==
    \A r \in Runs :
        /\ Constructed(r) =>
            /\ env[r].model = args[r].model
            /\ env[r].top_p = args[r].top_p
            /\ env[r].temperature = args[r].temperature
            /\ env[r].max_tokens = args[r].max_tokens
        /\ \A i \in 1 .. Len(net[r]) :
            LET q == net[r][i].request
            IN  /\ q.model = args[r].model
                /\ q.top_p = args[r].top_p
                /\ q.temperature = args[r].temperature
                /\ q.max_tokens = args[r].max_tokens
                /\ q.stream = FALSE

C5_Witness ==
    \E r \in Runs :
        /\ pc[r] = "returned"
        /\ args[r].model = "glm-4-flash"
        /\ net[r][1].outcome.kind = "raise"
        /\ Len(net[r]) = 3
        /\ \A i \in 1 .. 3 :
            /\ net[r][i].request.model = "glm-4-flash"
            /\ net[r][i].request.top_p = 90
            /\ net[r][i].request.temperature = 70
            /\ net[r][i].request.max_tokens = 128

\* C6: every run that has ended has issued exactly three calls, the first
\* with the analyzer's system message, the second with the reasoner's, the
\* third with the verifier's, and has ended by returning.
C6_ExactlyThreeCallsInOrder ==
    \A r \in Runs :
        pc[r] \in {"returned", "raised"}
        => /\ pc[r] = "returned"
           /\ calls[r] = 3
           /\ Len(net[r]) = 3
           /\ SystemText(r, 1) = AnalyzerMessage
           /\ SystemText(r, 2) = ReasonerMessage
           /\ SystemText(r, 3) = VerifierMessage

\* The calls of a run whose client was constructed: one per line from 105
\* to 107, in that order, whatever each step ended with.
CallsOfConstructedRun ==
    \A r \in Runs :
        /\ raisedIn[r] # "ask_model"
        /\ Constructed(r) =>
            /\ calls[r] = (CASE pc[r] = "L105" -> 0 [] pc[r] = "L106" -> 1
                             [] pc[r] = "L107" -> 2 [] pc[r] = "returned" -> 3)
            /\ Len(net[r]) = calls[r]
            /\ \A i \in 1 .. Len(net[r]) :
                SystemText(r, i) =
                    (CASE i = 1 -> AnalyzerMessage [] i = 2 -> ReasonerMessage
                       [] i = 3 -> VerifierMessage)

\* C7: each ask_model invocation sends exactly one request, also when the
\* request fails.
C7_OneRequestPerCall ==
    \A r \in Runs :
        /\ Len(net[r]) = calls[r]
        /\ \A i \in 1 .. Len(net[r]) : net[r][i].call = i

C7_Witness ==
    \E r \in Runs :
        /\ calls[r] = 3
        /\ Len(net[r]) = 3
        /\ net[r][1].outcome.kind = "raise"
        /\ net[r][2].outcome.kind = "raise"
        /\ net[r][3].outcome = Response(<<>>)

\* The role definition of each step.
RoleName(call) ==
    CASE call = 1 -> "Problem Analyzer"
      [] call = 2 -> "Step-by-Step Reasoner"
      [] call = 3 -> "Logical Verifier"

RoleMessage(call) ==
    CASE call = 1 -> AnalyzerMessage
      [] call = 2 -> ReasonerMessage
      [] call = 3 -> VerifierMessage

RoleAgent(r, call) ==
    CASE call = 1 -> agents[r].analyzer
      [] call = 2 -> agents[r].reasoner
      [] call = 3 -> agents[r].verifier

\* The text a step is given: the question, then the previous step's result.
StepInput(r, call) ==
    IF call = 1 THEN args[r].question ELSE StepResult(r, call - 1)

\* C8: think sends the role's fixed instruction as system message and its
\* argument as user message and returns the gateway's result unchanged; the
\* name and instruction of each role stay as constructed.
C8_RoleWrapper ==
    \A r \in Runs :
        /\ Constructed(r) =>
            \A c \in 1 .. 3 :
                /\ RoleAgent(r, c).name = RoleName(c)
                /\ RoleAgent(r, c).system_message = RoleMessage(c)
        /\ \A i \in 1 .. Len(net[r]) :
            LET c == net[r][i].call
                q == net[r][i].request
            IN  /\ q.messages[1] = [role |-> "system", content |-> RoleMessage(c)]
                /\ q.messages[2] = [role |-> "user", content |-> StepInput(r, c)]
                /\ Len(q.messages) = 2
                /\ StepResult(r, c) =
                     ask_model(env[r], RoleMessage(c), StepInput(r, c),
                               net[r][i].outcome).result.value

C8_Witness ==
    \E r \in Runs :
        /\ pc[r] = "returned"
        /\ SystemText(r, 1) = AnalyzerMessage
        /\ SystemText(r, 2) = ReasonerMessage
        /\ SystemText(r, 3) = VerifierMessage
        /\ UserText(r, 3) = Str(<<"b">>)
        /\ ret[r][3] = Str(<<"a">>)

\* A run on its own: the requests and results of the first Len(os) steps of
\* cot_process with arguments a when the service's outcomes are os.
RECURSIVE AloneFrom(_, _, _, _, _)
AloneFrom(e, input, os, c, acc) ==
    IF c > Len(os) THEN acc
    ELSE LET res == ask_model(e, RoleMessage(c), input, os[c])
         IN  AloneFrom(e, res.result.value, os, c + 1,
                       [requests |-> acc.requests \o res.sent,
                        results |-> Append(acc.results, res.result.value)])

Alone(a, os) ==
    AloneFrom(CoTEnvironmentInit(a), a.question, os, 1,
              [requests |-> <<>>, results |-> <<>>])

OutcomesOf(r) == [i \in 1 .. Len(net[r]) |-> net[r][i].outcome]

RequestsOf(r) == [i \in 1 .. Len(net[r]) |-> net[r][i].request]

\* C9: with runs interleaved in any order, the requests of each run carry
\* that run's own key, settings and chained texts, and the triple it returns
\* is the one it returns when run alone against the same outcomes.
C9_RunsIndependent ==
    \A r \in Runs :
        /\ \A i \in 1 .. Len(net[r]) :
            net[r][i].request.api_key = args[r].api_key
        /\ RequestsOf(r) = Alone(args[r], OutcomesOf(r)).requests
        /\ pc[r] = "returned" => ret[r] = Alone(args[r], OutcomesOf(r)).results

C9_Witness ==
    /\ pc[1] = "returned"
    /\ pc[2] = "L107"
    /\ args[1].api_key = "key-2"
    /\ args[2].api_key = "key-1"
    /\ ret[1] = <<Str(<<"a">>), Str(ErrorPrefix \o <<"a">>), Str(<<"b">>)>>
    /\ net[2][2].request.model = "glm-4-plus"
    /\ UserText(2, 2) = Str(<<"b">>)

=============================================================================
